---- MODULE Spec2Model ----
(***************************************************************************)
(* Model of package log (src/log.go): the logrus wrapper that enriches     *)
(* every entry with the call site, the server name, the build metadata     *)
(* snapshot and the request-scoped context values.                         *)
(*                                                                         *)
(* Go strings are sequences of one-character strings, so that              *)
(* strings.Split, strings.LastIndex, slicing and strconv.Itoa are computed *)
(* as the code computes them.  Go interface values are records             *)
(* [t |-> dynamic type, v |-> text of the value].                          *)
(***************************************************************************)
EXTENDS Integers, Sequences, FiniteSets, TLC

VARIABLES
    logger,      \* the package-level *logrus.Logger: output, formatter, level
    meta,        \* the package-level buildMeta snapshot of the environment
    serverName,  \* viper's "server.name", read at each call
    lastInit,    \* arguments of the most recent Init call (history)
    last,        \* the most recent sequential call: inputs, entry, sink lines
    g,           \* the goroutines of the concurrent specification
    locals       \* storage of the (filename, fn) locals of each Log call

vars == <<logger, meta, serverName, lastInit, last, g, locals>>

----------------------------------------------------------------------------
(* Bounds *)

MaxDepth == 2          \* frames above the entry point in a call stack
NumGoroutines == 2     \* simultaneous callers of Log

----------------------------------------------------------------------------
(* Strings *)

Unknown == <<"u","n","k","n","o","w","n">>
Slash == "/"
Dot == "."
Colon == ":"

Digits == <<"0","1","2","3","4","5","6","7","8","9">>

RECURSIVE Itoa(_)
Itoa(n) ==
    IF n < 10 THEN <<Digits[n + 1]>>
    ELSE Itoa(n \div 10) \o <<Digits[(n % 10) + 1]>>

RECURSIVE Split(_, _)
Split(s, sep) ==
    IF \A i \in 1..Len(s) : s[i] # sep THEN <<s>>
    ELSE LET i == CHOOSE j \in 1..Len(s) :
                      s[j] = sep /\ \A k \in 1..(j - 1) : s[k] # sep
         IN <<SubSeq(s, 1, i - 1)>> \o Split(SubSeq(s, i + 1, Len(s)), sep)

\* 0-based index of the last occurrence, -1 when there is none
LastIndex(s, ch) ==
    IF \A i \in 1..Len(s) : s[i] # ch THEN -1
    ELSE (CHOOSE j \in 1..Len(s) :
              s[j] = ch /\ \A k \in (j + 1)..Len(s) : s[k] # ch) - 1

\* strings.Index: 0-based index of the first occurrence, -1 when none
Index(s, ch) ==
    IF \A i \in 1..Len(s) : s[i] # ch THEN -1
    ELSE (CHOOSE j \in 1..Len(s) :
              s[j] = ch /\ \A k \in 1..(j - 1) : s[k] # ch) - 1

\* s[from:] with a 0-based from
SliceFrom(s, from) == SubSeq(s, from + 1, Len(s))

RECURSIVE Join(_, _)
Join(parts, sep) ==
    IF Len(parts) = 0 THEN <<>>
    ELSE IF Len(parts) = 1 THEN parts[1]
    ELSE parts[1] \o <<sep>> \o Join(Tail(parts), sep)

----------------------------------------------------------------------------
(* Go interface values *)

NilValue == [t |-> "nil", v |-> <<>>]
StringValue(s) == [t |-> "string", v |-> s]
EmptyString == StringValue(<<>>)
Int42 == [t |-> "int", v |-> <<"4","2">>]
ErrBoom == [t |-> "error", v |-> <<"b","o","o","m">>]
Absent == [t |-> "absent", v |-> <<>>]

----------------------------------------------------------------------------
(* Request contexts *)

Keys == {"traceid", "ip", "MERCHANT_KEY", "OPERATOR_KEY"}

KeyString(k) ==
    CASE k = "traceid"      -> StringValue(<<"a","b","c","1","2","3">>)
      [] k = "ip"           -> StringValue(<<"1","0",".","0",".","0",".","1">>)
      [] k = "MERCHANT_KEY" -> StringValue(<<"m","7">>)
      [] k = "OPERATOR_KEY" -> StringValue(<<"o","p","s">>)

AllAbsent == [k \in Keys |-> Absent]
AllSet == [k \in Keys |-> KeyString(k)]

NilContext == [isNil |-> TRUE, vals |-> AllAbsent]
OnlyTrace == [isNil |-> FALSE,
              vals |-> [AllAbsent EXCEPT !["traceid"] = KeyString("traceid")]]
OtherTrace == [isNil |-> FALSE,
               vals |-> [AllSet EXCEPT !["traceid"] = StringValue(<<"x","9">>),
                                       !["ip"] = StringValue(<<"1",".","1">>)]]

\* every way one key can deviate (absent, "", a string, a non-string) from a
\* context that holds nothing and from one that holds all four strings
Contexts ==
    {NilContext} \cup
    UNION {{[isNil |-> FALSE, vals |-> [base EXCEPT ![k] = s]] :
                base \in {AllAbsent, AllSet},
                s \in {Absent, EmptyString, Int42, KeyString(k)}} : k \in Keys}

----------------------------------------------------------------------------
(* Call stacks: what runtime.Caller and debug.Stack read *)

\* a frame: the directory components and base name of the source file, the
\* line, the qualifier (package path, receiver, enclosing function) and the
\* final identifier of the function
Frame(dir, base, line, qual, name) ==
    [dir |-> dir, base |-> base, line |-> line, qual |-> qual, name |-> name]

FilePath(f) == Join(f.dir \o <<f.base>>, Slash)
QualifiedName(f) == f.qual \o <<Dot>> \o f.name

LogDir == <<<<>>, <<"m","o","d">>, <<"l","o","g">>>>
LogGo == <<"l","o","g",".","g","o">>
LogPkg == <<"x",".","i","o","/","l","o","g">>

FrameGetCallerInfo ==
    Frame(LogDir, LogGo, 149, LogPkg,
          <<"g","e","t","C","a","l","l","e","r","I","n","f","o">>)
FrameGetStackTrace ==
    Frame(LogDir, LogGo, 165, LogPkg,
          <<"g","e","t","S","t","a","c","k","T","r","a","c","e">>)
FrameLog == Frame(LogDir, LogGo, 73, LogPkg, <<"L","o","g">>)
FrameErrorWithStack ==
    Frame(LogDir, LogGo, 79, LogPkg,
          <<"E","r","r","o","r","W","i","t","h","S","t","a","c","k">>)
FrameErrorfWithStack ==
    Frame(LogDir, LogGo, 92, LogPkg,
          <<"E","r","r","o","r","f","W","i","t","h","S","t","a","c","k">>)

EntryFrame(op) ==
    CASE op = "Log" -> FrameLog
      [] op = "ErrorWithStack" -> FrameErrorWithStack
      [] op = "ErrorfWithStack" -> FrameErrorfWithStack

\* frames of the programs that call the package
FrameHandler ==
    Frame(<<<<>>, <<"s","r","v">>, <<"a","p","i">>>>, <<"h",".","g","o">>, 53,
          <<"x",".","i","o","/","a","p","i">>, <<"C","r","e","a","t","e">>)
FrameMain ==
    Frame(<<>>, <<"m","a","i","n",".","g","o">>, 7,
          <<"m","a","i","n">>, <<"m","a","i","n">>)
FrameMethod ==
    Frame(<<<<>>, <<"s","r","v">>>>, <<"s",".","g","o">>, 120,
          <<"m","a","i","n",".","(","*","S",")">>, <<"S","e","r","v","e">>)
FrameClosure ==
    Frame(<<<<>>, <<"s","r","v">>>>, <<"s",".","g","o">>, 9,
          <<"m","a","i","n",".","r","u","n">>, <<"f","u","n","c","1">>)

CallerFrames == {FrameHandler, FrameMain, FrameMethod, FrameClosure}

\* the frames above the entry point, innermost first; the empty stack is a
\* call with no recoverable caller frame
CallerStacks ==
    UNION {[1..n -> CallerFrames] : n \in 0..MaxDepth}

FewStacks == {<<>>, <<FrameHandler>>}

\* the goroutine's stack as getCallerInfo sees it, innermost first
RuntimeStack(op, callers) == <<FrameGetCallerInfo, EntryFrame(op)>> \o callers

\* runtime.Caller(skip): skip 0 is the function that calls it
runtimeCaller(stack, skip) ==
    IF skip + 1 <= Len(stack)
    THEN [ok |-> TRUE, file |-> FilePath(stack[skip + 1]),
          line |-> stack[skip + 1].line,
          funcName |-> QualifiedName(stack[skip + 1])]
    ELSE [ok |-> FALSE, file |-> <<>>, line |-> 0, funcName |-> <<>>]

\* variant: the name cut at the first '.' instead of the last
bareNameFirstDot(funcName) == SliceFrom(funcName, Index(funcName, Dot) + 1)
\* funcName[strings.LastIndex(funcName, ".")+1:]
bareName(funcName) == SliceFrom(funcName, LastIndex(funcName, Dot) + 1)

\* fileParts[len(fileParts)-1] + ":" + strconv.Itoa(line)
shortFile(file, line) ==
    LET fileParts == Split(file, Slash)
    IN fileParts[Len(fileParts)] \o <<Colon>> \o Itoa(line)

\* variant: the result of runtime.Caller used without looking at ok
getCallerInfoUnchecked(stack, skip) ==
    LET c == runtimeCaller(stack, skip)
    IN [filename |-> shortFile(c.file, c.line), fn |-> bareName(c.funcName)]
\* getCallerInfo(skip) on the given goroutine stack
getCallerInfo(stack, skip) ==
    LET c == runtimeCaller(stack, skip)
    IN IF ~c.ok THEN [filename |-> Unknown, fn |-> Unknown]
       ELSE [filename |-> shortFile(c.file, c.line),
             fn |-> bareName(c.funcName)]

\* debug.Stack(): the goroutine header, then two lines per frame
StackHeader ==
    <<"g","o","r","o","u","t","i","n","e"," ","1"," ",
      "[","r","u","n","n","i","n","g","]",":","\n">>

RECURSIVE StackText(_)
StackText(stack) ==
    IF Len(stack) = 0 THEN <<>>
    ELSE QualifiedName(stack[1]) \o <<"(",")","\n","\t">>
         \o FilePath(stack[1]) \o <<Colon>> \o Itoa(stack[1].line) \o <<"\n">>
         \o StackText(Tail(stack))

\* the line of the entry point that calls getStackTrace
stackCallLine(op) == IF op = "ErrorWithStack" THEN 81 ELSE 94

\* string(debug.Stack()) called from getStackTrace
getStackTrace(op, callers) ==
    StackHeader \o
    StackText(<<FrameGetStackTrace,
                [EntryFrame(op) EXCEPT !.line = stackCallLine(op)]>>
              \o callers)

----------------------------------------------------------------------------
(* Entries: logrus.Entry.Data, a mapping of field name to value *)

NoFields == [f \in {} |-> NilValue]

\* Entry.WithField: a new entry holding a copy of the data plus one field
WithField(e, k, val) ==
    [f \in (DOMAIN e) \cup {k} |-> IF f = k THEN val ELSE e[f]]

\* ctx.Value(key) of a non-nil context: nil when the key is not stored
Value(ctx, key) ==
    IF ctx.vals[key] = Absent THEN NilValue ELSE ctx.vals[key]

\* variant: ctx.Value called without the nil guard
ctxNotNilUnguarded(ctx) == TRUE
\* if ctx != nil
ctxNotNil(ctx) == ~ctx.isNil

\* the comparison  value != ""  of an interface value with a string constant
notEmptyString(val) == ~(val.t = "string" /\ Len(val.v) = 0)

\* if v := ctx.Value(key); v != "" { logCtx = logCtx.WithField(field, v) }
withContextField(e, ctx, key, field) ==
    IF notEmptyString(Value(ctx, key))
    THEN WithField(e, field, Value(ctx, key))
    ELSE e

contextFields(e, ctx) ==
    withContextField(
        withContextField(
            withContextField(
                withContextField(e, ctx, "traceid", "trace"),
                ctx, "ip", "ip"),
            ctx, "MERCHANT_KEY", "merchantId"),
        ctx, "OPERATOR_KEY", "operator")

\* variant: the metadata field attached whatever its value
metaSetAlways(s) == TRUE
\* if meta.X != ""
metaSet(s) == Len(s) # 0

withMetaField(e, field, s) ==
    IF metaSet(s) THEN WithField(e, field, StringValue(s)) ELSE e

metaFields(e, m) ==
    withMetaField(
        withMetaField(
            withMetaField(
                withMetaField(
                    withMetaField(e, "image", m.Image),
                    "git_commit", m.GitCommit),
                "git_branch", m.GitBranch),
            "build_time", m.BuildTime),
        "instance", m.Instance)

baseFields(server, filename, fn) ==
    WithField(
        WithField(
            WithField(NoFields, "server", StringValue(server)),
            "file", StringValue(filename)),
        "func", StringValue(fn))

\* getBaseEntry: the entry, or a panic when Value is called on a nil context
getBaseEntry(ctx, filename, fn) ==
    LET logCtx == baseFields(serverName, filename, fn)
    IN IF ctxNotNil(ctx) /\ ctx.isNil
       THEN [panicked |-> TRUE, data |-> NoFields]
       ELSE [panicked |-> FALSE,
             data |-> metaFields(
                          IF ctxNotNil(ctx) THEN contextFields(logCtx, ctx)
                          ELSE logCtx,
                          meta)]

\* variant: the stack trace not attached
attachStackForgotten(e, stack) == e
\* .WithField("stacktrace", getStackTrace())
attachStack(e, stack) == WithField(e, "stacktrace", StringValue(stack))

----------------------------------------------------------------------------
(* The logrus logger: levels, output, and the write of one entry *)

LevelNames ==
    <<"PanicLevel", "FatalLevel", "ErrorLevel", "WarnLevel", "InfoLevel",
      "DebugLevel", "TraceLevel">>
LevelRank(l) == CHOOSE i \in 1..Len(LevelNames) : LevelNames[i] = l

\* Logger.IsLevelEnabled
IsLevelEnabled(lg, level) == LevelRank(lg.level) >= LevelRank(level)

\* Entry.Log: the line handed to the logger's output, if the level is enabled
Emit(lg, data, level, msg) ==
    IF IsLevelEnabled(lg, level)
    THEN <<[out |-> lg.out, formatter |-> lg.formatter, level |-> level,
            data |-> data, msg |-> msg]>>
    ELSE <<>>

Sprint(operands) == [fn |-> "Sprint", format |-> <<>>, operands |-> operands]
Sprintf(format, operands) ==
    [fn |-> "Sprintf", format |-> format, operands |-> operands]

NilWriter == "nil"
Writers == {"buf"}

\* variant: no else branch, a nil output keeps the current one
initOutputKeep(output, cur) == IF output # NilWriter THEN output ELSE cur
\* if output != nil { SetOutput(output) } else { SetOutput(os.Stdout) }
initOutput(output, cur) == IF output # NilWriter THEN output ELSE "stdout"

\* variant: an empty  case "test":  that leaves the level as it is
switchLevelTestCase(logLevel, cur) ==
    CASE logLevel = "debug" -> "DebugLevel"
      [] logLevel = "test"  -> cur
      [] logLevel = "info"  -> "InfoLevel"
      [] logLevel = "warn"  -> "WarnLevel"
      [] logLevel = "error" -> "ErrorLevel"
      [] OTHER              -> "InfoLevel"
\* switch logLevel { ... default: InfoLevel }
switchLevel(logLevel, cur) ==
    CASE logLevel = "debug" -> "DebugLevel"
      [] logLevel = "info"  -> "InfoLevel"
      [] logLevel = "warn"  -> "WarnLevel"
      [] logLevel = "error" -> "ErrorLevel"
      [] OTHER              -> "InfoLevel"

\* variant: the entry logged with Warn instead of Error
errorLinesAtWarn(lg, e, err, args) ==
    IF Len(args) = 0 THEN Emit(lg, e, "WarnLevel", Sprint(<<err>>))
    ELSE Emit(lg, WithField(e, "error", err), "WarnLevel", Sprint(args))
\* entry.Error(err)  /  entry.WithError(err).Error(args...)
errorLines(lg, e, err, args) ==
    IF Len(args) = 0 THEN Emit(lg, e, "ErrorLevel", Sprint(<<err>>))
    ELSE Emit(lg, WithField(e, "error", err), "ErrorLevel", Sprint(args))

\* entry.WithError(err).Errorf(format, args...)
errorfLines(lg, e, err, format, args) ==
    Emit(lg, WithField(e, "error", err), "ErrorLevel", Sprintf(format, args))

----------------------------------------------------------------------------
(* Inputs *)

LevelInputs == {"debug", "info", "warn", "error", "", "test", "DEBUG"}
Errors == {NilValue, ErrBoom}
ArgLists == {<<>>, <<StringValue(<<"x">>)>>}
Formats == {<<"%","v">>}

\* os.Getenv of the five variables at process start: "" when unset
MetaVars == {"Image", "GitCommit", "GitBranch", "BuildTime", "Instance"}
MetaUnset ==
    [Image |-> <<>>, GitCommit |-> <<>>, GitBranch |-> <<>>,
     BuildTime |-> <<>>, Instance |-> <<>>]
MetaAllSet ==
    [Image |-> <<"a",":","v","1">>, GitCommit |-> <<"c","0","f","e">>,
     GitBranch |-> <<"m","a","i","n">>, BuildTime |-> <<"2","0","2","5">>,
     Instance |-> <<"h","0","1">>]
\* none set, all set, and each variable alone set or alone unset
MetaSnapshots ==
    UNION {{MetaUnset, MetaAllSet,
            [MetaUnset EXCEPT ![x] = MetaAllSet[x]],
            [MetaAllSet EXCEPT ![x] = <<>>]} : x \in MetaVars}
MetaRelease ==
    [Image |-> <<"a",":","v","1">>, GitCommit |-> <<"c","0","f","e">>,
     GitBranch |-> <<>>, BuildTime |-> <<>>, Instance |-> <<"h","0","1">>]
FewMeta == {MetaUnset, MetaRelease}

ServerNames == {<<"a","p","i">>}

----------------------------------------------------------------------------
(* State *)

Goroutines == 1..NumGoroutines

NoSite == [filename |-> <<>>, fn |-> <<>>]
NoCall ==
    [op |-> "none", ctx |-> NilContext, callers |-> <<>>, err |-> NilValue,
     args |-> <<>>, panicked |-> FALSE, entry |-> NoFields, lines |-> <<>>]
Idle ==
    [pc |-> "idle", ctx |-> NilContext, callers |-> <<>>,
     entry |-> NoFields, result |-> NoFields]

\* logrus.New(): stderr, text formatter, info level
Start(metas) ==
    /\ logger = [out |-> "stderr", formatter |-> "text", level |-> "InfoLevel"]
    /\ meta \in metas
    /\ serverName \in ServerNames
    /\ lastInit = [called |-> FALSE, logLevel |-> "", output |-> NilWriter]
    /\ last = NoCall
    /\ g = [p \in Goroutines |-> Idle]
    /\ locals = [p \in Goroutines |-> NoSite]

----------------------------------------------------------------------------
(* Operations, each one whole call *)

Init(logLevel, output) ==
    /\ logger' = [out |-> initOutput(output, logger.out),
                  formatter |-> "json",
                  level |-> switchLevel(logLevel, logger.level)]
    /\ lastInit' = [called |-> TRUE, logLevel |-> logLevel, output |-> output]
    /\ UNCHANGED <<meta, serverName, last, g, locals>>

Called(op, ctx, callers, err, args, r, entry, lines) ==
    [op |-> op, ctx |-> ctx, callers |-> callers, err |-> err, args |-> args,
     panicked |-> r.panicked,
     entry |-> IF r.panicked THEN NoFields ELSE entry,
     lines |-> IF r.panicked THEN <<>> ELSE lines]

Log(ctx, callers) ==
    LET site == getCallerInfo(RuntimeStack("Log", callers), 2)
        r == getBaseEntry(ctx, site.filename, site.fn)
    IN /\ last' = Called("Log", ctx, callers, NilValue, <<>>, r, r.data, <<>>)
       /\ UNCHANGED <<logger, meta, serverName, lastInit, g, locals>>

ErrorWithStack(ctx, err, args, callers) ==
    LET site == getCallerInfo(RuntimeStack("ErrorWithStack", callers), 2)
        r == getBaseEntry(ctx, site.filename, site.fn)
        entry == attachStack(r.data, getStackTrace("ErrorWithStack", callers))
    IN /\ last' = Called("ErrorWithStack", ctx, callers, err, args, r, entry,
                         errorLines(logger, entry, err, args))
       /\ UNCHANGED <<logger, meta, serverName, lastInit, g, locals>>

ErrorfWithStack(ctx, err, format, args, callers) ==
    LET site == getCallerInfo(RuntimeStack("ErrorfWithStack", callers), 2)
        r == getBaseEntry(ctx, site.filename, site.fn)
        entry == attachStack(r.data, getStackTrace("ErrorfWithStack", callers))
    IN /\ last' = Called("ErrorfWithStack", ctx, callers, err, args, r, entry,
                         errorfLines(logger, entry, err, format, args))
       /\ UNCHANGED <<logger, meta, serverName, lastInit, g, locals>>

\* the three entry points over given sets of inputs
Calls(ctxs, stacks, errs, arglists) ==
    \/ \E ctx \in ctxs, callers \in stacks : Log(ctx, callers)
    \/ \E ctx \in ctxs, callers \in stacks, err \in errs, args \in arglists :
           ErrorWithStack(ctx, err, args, callers)
    \/ \E ctx \in ctxs, callers \in stacks, err \in errs,
          format \in Formats, args \in arglists :
           ErrorfWithStack(ctx, err, format, args, callers)

----------------------------------------------------------------------------
(* Goroutines calling Log at the same time, one statement per step *)

Requests ==
    {[ctx |-> OnlyTrace, callers |-> <<FrameHandler>>],
     [ctx |-> OtherTrace, callers |-> <<FrameMain>>]}

\* variant: filename and fn kept in package-level variables
localSlotShared(p) == 1
\* filename, fn := getCallerInfo(2)  declares locals of the calling goroutine
localSlot(p) == p

Call(p, req) ==
    /\ g[p].pc \in {"idle", "done"}
    /\ g' = [g EXCEPT ![p] = [pc |-> "caller", ctx |-> req.ctx,
                              callers |-> req.callers,
                              entry |-> NoFields, result |-> NoFields]]
    /\ UNCHANGED <<logger, meta, serverName, lastInit, last, locals>>

ResolveCaller(p) ==
    /\ g[p].pc = "caller"
    /\ locals' = [locals EXCEPT ![localSlot(p)] =
                      getCallerInfo(RuntimeStack("Log", g[p].callers), 2)]
    /\ g' = [g EXCEPT ![p].pc = "base"]
    /\ UNCHANGED <<logger, meta, serverName, lastInit, last>>

BuildBase(p) ==
    /\ g[p].pc = "base"
    /\ g' = [g EXCEPT ![p].pc = "context",
                      ![p].entry = baseFields(serverName,
                                              locals[localSlot(p)].filename,
                                              locals[localSlot(p)].fn)]
    /\ UNCHANGED <<logger, meta, serverName, lastInit, last, locals>>

AddContext(p) ==
    /\ g[p].pc = "context"
    /\ g' = [g EXCEPT
                ![p].pc = IF ctxNotNil(g[p].ctx) /\ g[p].ctx.isNil
                          THEN "panicked" ELSE "meta",
                ![p].entry = IF ctxNotNil(g[p].ctx) /\ ~g[p].ctx.isNil
                             THEN contextFields(g[p].entry, g[p].ctx)
                             ELSE g[p].entry]
    /\ UNCHANGED <<logger, meta, serverName, lastInit, last, locals>>

AddMetaAndReturn(p) ==
    /\ g[p].pc = "meta"
    /\ g' = [g EXCEPT ![p].pc = "done",
                      ![p].entry = metaFields(g[p].entry, meta),
                      ![p].result = metaFields(g[p].entry, meta)]
    /\ UNCHANGED <<logger, meta, serverName, lastInit, last, locals>>

----------------------------------------------------------------------------
(* Specifications *)

\* configuration and logging: Init in any order with the entry points
Next ==
    \/ \E logLevel \in LevelInputs, output \in Writers \cup {NilWriter} :
           Init(logLevel, output)
    \/ Calls({NilContext, OnlyTrace}, FewStacks, Errors, ArgLists)

Spec == Start(FewMeta) /\ [][Next]_vars

\* entry construction over every context and every metadata snapshot
NextEntry == Calls(Contexts, {<<FrameHandler>>}, {ErrBoom}, {<<>>})

SpecEntry == Start(MetaSnapshots) /\ [][NextEntry]_vars

\* caller resolution over every call stack
NextCaller == Calls({OnlyTrace}, CallerStacks, {ErrBoom}, {<<>>})

SpecCaller == Start(FewMeta) /\ [][NextCaller]_vars

\* simultaneous Log calls, no Init while they run
NextConc ==
    \E p \in Goroutines :
        \/ \E req \in Requests : Call(p, req)
        \/ ResolveCaller(p)
        \/ BuildBase(p)
        \/ AddContext(p)
        \/ AddMetaAndReturn(p)

SpecConc == Start({MetaRelease}) /\ [][NextConc]_vars

----------------------------------------------------------------------------
(* Properties *)

ErrorOps == {"ErrorWithStack", "ErrorfWithStack"}
Built == last.op # "none" /\ ~last.panicked

FieldOfKey(k) ==
    CASE k = "traceid"      -> "trace"
      [] k = "ip"           -> "ip"
      [] k = "MERCHANT_KEY" -> "merchantId"
      [] k = "OPERATOR_KEY" -> "operator"

FieldOfMeta(x) ==
    CASE x = "Image"     -> "image"
      [] x = "GitCommit" -> "git_commit"
      [] x = "GitBranch" -> "git_branch"
      [] x = "BuildTime" -> "build_time"
      [] x = "Instance"  -> "instance"

AlwaysFields == {"server", "file", "func"}
OptionalFields ==
    {FieldOfKey(k) : k \in Keys} \cup {FieldOfMeta(x) : x \in MetaVars}

HoldsNonEmptyString(ctx, k) ==
    /\ ~ctx.isNil
    /\ ctx.vals[k].t = "string"
    /\ Len(ctx.vals[k].v) > 0

\* C1: a context field is in the built entry if and only if the context is
\* non-nil and holds a non-empty string under its key; a nil context, an
\* absent key, an empty string or a non-string value leaves the field out.
C1_ContextFieldIffNonEmptyString ==
    Built =>
        \A k \in Keys :
            (FieldOfKey(k) \in DOMAIN last.entry)
                <=> HoldsNonEmptyString(last.ctx, k)

\* C2: every built entry has server, file and func, has no optional field
\* whose value is the empty string, and has none of the five build-metadata
\* fields when all five environment variables were unset.
C2_AlwaysFieldsNoEmptyOptional ==
    Built =>
        /\ AlwaysFields \subseteq DOMAIN last.entry
        /\ \A f \in OptionalFields \cap DOMAIN last.entry :
               last.entry[f] # EmptyString
        /\ meta = MetaUnset =>
               \A x \in MetaVars : FieldOfMeta(x) \notin DOMAIN last.entry

C2_Witness ==
    /\ Built
    /\ meta = MetaUnset
    /\ last.ctx.vals["ip"] = EmptyString
    /\ "ip" \notin DOMAIN last.entry
    /\ "trace" \in DOMAIN last.entry
    /\ last.entry["trace"] = KeyString("traceid")

IsNonEmptyString(val) == val.t = "string" /\ Len(val.v) > 0

\* C3: ErrorWithStack and ErrorfWithStack attach a non-empty stacktrace to
\* the entry they emit, whatever the context, error and arguments; the entry
\* Log returns has no stacktrace field.
C3_StacktraceOnlyOnErrorPath ==
    /\ last.op \in ErrorOps =>
           /\ ~last.panicked
           /\ "stacktrace" \in DOMAIN last.entry
           /\ IsNonEmptyString(last.entry["stacktrace"])
           /\ \A i \in 1..Len(last.lines) :
                  /\ "stacktrace" \in DOMAIN last.lines[i].data
                  /\ IsNonEmptyString(last.lines[i].data["stacktrace"])
    /\ last.op = "Log" => "stacktrace" \notin DOMAIN last.entry

C3_Witness ==
    /\ last.op = "ErrorWithStack"
    /\ last.ctx.isNil
    /\ last.err = NilValue
    /\ Len(last.args) = 0
    /\ Len(last.lines) = 1
    /\ IsNonEmptyString(last.lines[1].data["stacktrace"])

\* C4: with a nil context Log succeeds and returns exactly server, file and
\* func plus the build-metadata fields whose snapshot value is non-empty.
C4_NilContextLog ==
    (last.op = "Log" /\ last.ctx.isNil) =>
        /\ ~last.panicked
        /\ DOMAIN last.entry =
               AlwaysFields \cup
               {FieldOfMeta(x) : x \in {y \in MetaVars : Len(meta[y]) > 0}}

C4_Witness ==
    /\ last.op = "Log"
    /\ last.ctx.isNil
    /\ ~last.panicked
    /\ DOMAIN last.entry = AlwaysFields \cup {"git_commit"}

\* C5: after Init(name) the minimum severity is the level named by debug,
\* info, warn or error, and info for every other string.
C5_InitLevel ==
    lastInit.called =>
        /\ lastInit.logLevel = "debug" => logger.level = "DebugLevel"
        /\ lastInit.logLevel = "info" => logger.level = "InfoLevel"
        /\ lastInit.logLevel = "warn" => logger.level = "WarnLevel"
        /\ lastInit.logLevel = "error" => logger.level = "ErrorLevel"
        /\ lastInit.logLevel \notin {"debug", "info", "warn", "error"} =>
               logger.level = "InfoLevel"

C5_Witness ==
    /\ lastInit.called
    /\ lastInit.logLevel = "test"
    /\ logger.level = "InfoLevel"
    /\ last.op = "ErrorWithStack"
    /\ Len(last.lines) = 1
    /\ last.lines[1].formatter = "json"

FreshInit(logLevel, output) ==
    [out |-> IF output = NilWriter THEN "stdout" ELSE output,
     level |-> IF logLevel = "debug" THEN "DebugLevel"
               ELSE IF logLevel = "warn" THEN "WarnLevel"
               ELSE IF logLevel = "error" THEN "ErrorLevel"
               ELSE "InfoLevel"]

\* C6: the configured output and level are those of the last Init call
\* alone, whatever Init calls came before, and no logging entry point
\* changes them.
C6_LastInitWins ==
    /\ [](lastInit.called =>
            /\ logger.out = FreshInit(lastInit.logLevel, lastInit.output).out
            /\ logger.level =
                   FreshInit(lastInit.logLevel, lastInit.output).level)
    /\ [][last' # last => logger' = logger]_vars

C6_Witness ==
    /\ lastInit.called
    /\ lastInit.output = NilWriter
    /\ logger.out = "stdout"
    /\ logger.level = "WarnLevel"
    /\ last.op = "Log"
    /\ Len(last.lines) = 0

\* C7: each ErrorWithStack or ErrorfWithStack call completes and hands
\* exactly one error-severity entry, with server, file and func, to the
\* output configured at the time of the call.
C7_ErrorPathAlwaysLogs ==
    /\ [](last.op \in ErrorOps =>
            /\ ~last.panicked
            /\ Len(last.lines) = 1
            /\ last.lines[1].level = "ErrorLevel"
            /\ AlwaysFields \subseteq DOMAIN last.lines[1].data)
    /\ [][(last' # last /\ last'.op \in ErrorOps) =>
            /\ Len(last'.lines) = 1
            /\ last'.lines[1].out = logger.out]_vars

C7_Witness ==
    /\ last.op = "ErrorWithStack"
    /\ last.ctx.isNil
    /\ Len(last.callers) = 0
    /\ meta = MetaUnset
    /\ logger.level = "ErrorLevel"
    /\ Len(last.lines) = 1
    /\ last.lines[1].out = "buf"
    /\ last.lines[1].level = "ErrorLevel"

NoCallerFrame == last.op # "none" /\ Len(last.callers) = 0

\* C8 as stated: with no caller frame the resolver returns ("unknown", "0")
\* and the call completes with those values in file and func.
C8_SentinelUnknownZero ==
    NoCallerFrame =>
        /\ ~last.panicked
        /\ last.entry["file"] = StringValue(Unknown)
        /\ last.entry["func"] = StringValue(<<"0">>)

\* C8 amended: with no caller frame the resolver returns
\* ("unknown", "unknown") and the call completes with those values in file
\* and func.
C8_SentinelUnknownUnknown ==
    NoCallerFrame =>
        /\ ~last.panicked
        /\ last.entry["file"] = StringValue(Unknown)
        /\ last.entry["func"] = StringValue(Unknown)
        /\ last.op \in ErrorOps =>
               /\ Len(last.lines) = 1
               /\ last.lines[1].data["file"] = StringValue(Unknown)
               /\ last.lines[1].data["func"] = StringValue(Unknown)

C8_Witness ==
    /\ NoCallerFrame
    /\ last.op = "ErrorfWithStack"
    /\ Len(last.lines) = 1
    /\ last.lines[1].data["func"] = StringValue(Unknown)

\* the decimal text of the line numbers of the caller frames
Decimal(n) ==
    CASE n = 7   -> <<"7">>
      [] n = 9   -> <<"9">>
      [] n = 53  -> <<"5","3">>
      [] n = 120 -> <<"1","2","0">>

\* C10: file and func name the frame directly above the entry point: the
\* base name of its file, ':' and its line, and the final identifier of
\* its function with no package, receiver or enclosing-function qualifier.
C10_ImmediateCaller ==
    (last.op # "none" /\ Len(last.callers) > 0) =>
        /\ ~last.panicked
        /\ last.entry["file"] =
               StringValue(last.callers[1].base \o <<":">>
                           \o Decimal(last.callers[1].line))
        /\ last.entry["func"] = StringValue(last.callers[1].name)

C10_Witness ==
    /\ last.op = "ErrorfWithStack"
    /\ Len(last.callers) = 2
    /\ last.callers[1] = FrameMethod
    /\ last.callers[2] = FrameHandler
    /\ last.entry["file"] = StringValue(<<"s",".","g","o",":","1","2","0">>)
    /\ last.entry["func"] = StringValue(<<"S","e","r","v","e">>)

\* C9: whatever the interleaving of simultaneous Log calls, each returns one
\* entry holding server, file and func whose file, func and context fields
\* are those of its own call site and context, and a step of one call
\* changes neither another call's state nor the logger, the metadata
\* snapshot or the configuration.
C9_NoLeakBetweenCalls ==
    /\ [](\A p \in Goroutines :
            g[p].pc = "done" =>
                /\ AlwaysFields \subseteq DOMAIN g[p].result
                /\ g[p].result["file"] =
                       StringValue(g[p].callers[1].base \o <<":">>
                                   \o Decimal(g[p].callers[1].line))
                /\ g[p].result["func"] = StringValue(g[p].callers[1].name)
                /\ \A k \in Keys :
                       FieldOfKey(k) \in DOMAIN g[p].result =>
                           g[p].result[FieldOfKey(k)] = Value(g[p].ctx, k))
    /\ [][/\ \A p \in Goroutines : g'[p].pc = g[p].pc => g'[p] = g[p]
          /\ logger' = logger
          /\ meta' = meta
          /\ serverName' = serverName]_vars

C9_Witness ==
    /\ g[1].pc = "done"
    /\ g[2].pc = "done"
    /\ g[1].ctx = OnlyTrace
    /\ g[2].ctx = OtherTrace
    /\ g[1].result["trace"] = KeyString("traceid")
    /\ g[2].result["trace"] = StringValue(<<"x","9">>)
    /\ g[1].result["func"] = StringValue(<<"C","r","e","a","t","e">>)
    /\ g[2].result["func"] = StringValue(<<"m","a","i","n">>)

====
